---- MODULE Spec2Model ----
(***************************************************************************)
(* Model of bin/read_samplesheet.py: class SampleSheet and the __main__     *)
(* script that drives it.                                                   *)
(*                                                                          *)
(* Text is modelled at character level: a string is a sequence of           *)
(* one-character strings, a file is a sequence of lines, and the pandas     *)
(* readers and writers split and join lines on the separator character.     *)
(* Cells of the input samplesheets hold no separator, quote or line-break   *)
(* character, so the writers never quote a cell.                            *)
(*                                                                          *)
(* One behaviour is a sequence of processes.  Each process is one run of    *)
(* the script: argparse and __init__ (Construct), read_samplesheet, then    *)
(* update_samplesheet and write_samplesheet, or update_sampledb.  The       *)
(* database file outlives the process; the working directory is the         *)
(* process's own.  pandas is taken as 1.x (DataFrame.append exists and      *)
(* keeps the column order), and --run_name is always given.                 *)
(***************************************************************************)
EXTENDS Naturals, Sequences, FiniteSets

\* ------------------------------------------------------------------ text

TAB == "\t"
COMMA == ","
SLASH == "/"
DOT == "."
SPACE == " "

UpperChars == <<"A","B","C","D","E","F","G","H","I","J","K","L","M",
                "N","O","P","Q","R","S","T","U","V","W","X","Y","Z">>
LowerChars == <<"a","b","c","d","e","f","g","h","i","j","k","l","m",
                "n","o","p","q","r","s","t","u","v","w","x","y","z">>

\* str.lower() on one character
LowerChar(c) ==
    IF \E i \in DOMAIN UpperChars : UpperChars[i] = c
    THEN LowerChars[CHOOSE i \in DOMAIN UpperChars : UpperChars[i] = c]
    ELSE c

\* str.lower()
Lower(s) == [i \in DOMAIN s |-> LowerChar(s[i])]

\* whether pat occurs in s starting at position i
OccursAt(s, pat, i) ==
    /\ i >= 1
    /\ i + Len(pat) - 1 <= Len(s)
    /\ \A j \in 1..Len(pat) : s[i + j - 1] = pat[j]

\* position of the first occurrence of pat in s at or after i, 0 when none
RECURSIVE FirstOccFrom(_, _, _)
FirstOccFrom(s, pat, i) ==
    IF i + Len(pat) - 1 > Len(s) THEN 0
    ELSE IF OccursAt(s, pat, i) THEN i
    ELSE FirstOccFrom(s, pat, i + 1)

\* position of the first occurrence of pat in s, 0 when there is none
FirstOcc(s, pat) == FirstOccFrom(s, pat, 1)

\* position of the last occurrence of pat in s at or before i, 0 when none
RECURSIVE LastOccFrom(_, _, _)
LastOccFrom(s, pat, i) ==
    IF i < 1 THEN 0
    ELSE IF OccursAt(s, pat, i) THEN i
    ELSE LastOccFrom(s, pat, i - 1)

\* position of the last occurrence of pat in s, 0 when there is none
LastOcc(s, pat) == LastOccFrom(s, pat, Len(s))

\* s.split(pat)[0]
SplitHead(s, pat) ==
    LET k == FirstOcc(s, pat)
    IN IF k = 0 THEN s ELSE SubSeq(s, 1, k - 1)

\* s.split(pat)[-1]
SplitLast(s, pat) ==
    LET k == LastOcc(s, pat)
    IN IF k = 0 THEN s ELSE SubSeq(s, k + Len(pat), Len(s))

IsSpace(c) == c \in {SPACE, TAB}

\* str.strip()
Strip(s) ==
    IF \A i \in DOMAIN s : IsSpace(s[i]) THEN <<>>
    ELSE LET lo == CHOOSE i \in DOMAIN s :
                      ~IsSpace(s[i]) /\ \A j \in 1..(i - 1) : IsSpace(s[j])
             hi == CHOOSE i \in DOMAIN s :
                      ~IsSpace(s[i]) /\ \A j \in (i + 1)..Len(s) : IsSpace(s[j])
         IN SubSeq(s, lo, hi)

\* str.endswith(suf)
EndsWith(s, suf) ==
    /\ Len(suf) <= Len(s)
    /\ SubSeq(s, Len(s) - Len(suf) + 1, Len(s)) = suf

\* str.split(sep) on a one-character separator: the list of fields
RECURSIVE Split(_, _)
Split(s, sep) ==
    LET k == FirstOcc(s, <<sep>>)
    IN IF k = 0 THEN <<s>>
       ELSE <<SubSeq(s, 1, k - 1)>> \o Split(SubSeq(s, k + 1, Len(s)), sep)

\* sep.join(cells)
RECURSIVE Join(_, _)
Join(cells, sep) ==
    IF Len(cells) = 0 THEN <<>>
    ELSE IF Len(cells) = 1 THEN cells[1]
    ELSE cells[1] \o <<sep>> \o Join(Tail(cells), sep)

\* concatenation of a list of strings
RECURSIVE Concat(_)
Concat(ss) == IF Len(ss) = 0 THEN <<>> ELSE ss[1] \o Concat(Tail(ss))

\* os.path.dirname (posixpath): the text before the last "/", with trailing
\* slashes removed unless it consists of slashes only
RECURSIVE RStripSlash(_)
RStripSlash(s) ==
    IF Len(s) > 0 /\ s[Len(s)] = SLASH THEN RStripSlash(SubSeq(s, 1, Len(s) - 1))
    ELSE s

Dirname(p) ==
    LET head == SubSeq(p, 1, LastOcc(p, <<SLASH>>))
    IN IF head # <<>> /\ (\E i \in DOMAIN head : head[i] # SLASH)
       THEN RStripSlash(head) ELSE head

\* os.path.join(a, b) (posixpath)
PathJoin(a, b) ==
    IF Len(b) > 0 /\ b[1] = SLASH THEN b
    ELSE IF a = <<>> \/ a[Len(a)] = SLASH THEN a \o b
    ELSE a \o <<SLASH>> \o b


\* ------------------------------------------------------------ constants

CORR_SAMPLESHEET == <<"s","a","m","p","l","e","s","h","e","e","t",".","t","s","v">>
DEF_SAMPLE_ID == <<"I","D">>
DEF_FW_READS == <<"f","w","_","r","e","a","d","s">>
DEF_RV_READS == <<"r","v","_","r","e","a","d","s">>
S_run_id == <<"r","u","n","_","i","d">>
S_uqid == <<"u","q","i","d">>
S_assembly == <<"a","s","s","e","m","b","l","y">>
S_sampledb == <<"s","a","m","p","l","e","d","b",".","t","s","v">>
S_tsv == <<".","t","s","v">>
S_data == <<"/","d","a","t","a">>
S_results == <<"/","r","e","s","u","l","t","s","/">>
S_contigs == <<"/","a","s","s","e","m","b","l","y","/","c","o","n","t","i","g","s",".","f","a">>

\* ---------------------------------------------------------------- tables

\* A table (pandas DataFrame): column names and rows of cells, all strings.
EmptyTable == [cols |-> <<>>, rows |-> <<>>]

\* A file: absent, or a sequence of lines.
Absent == [exists |-> FALSE, lines |-> <<>>]

\* DataFrame.to_csv(path, sep=sep, index=False): a header line, then one line a row
WriteCsv(t, sep) ==
    [exists |-> TRUE,
     lines |-> <<Join(t.cols, sep)>> \o [i \in DOMAIN t.rows |-> Join(t.rows[i], sep)]]

\* pd.read_csv(path, sep=sep): the first line names the columns
ReadCsv(f, sep) ==
    [cols |-> Split(f.lines[1], sep),
     rows |-> [i \in 1..(Len(f.lines) - 1) |-> Split(f.lines[i + 1], sep)]]

\* position of column c in t, 0 when t has no such column
ColIndex(t, c) ==
    IF \E i \in DOMAIN t.cols : t.cols[i] = c
    THEN CHOOSE i \in DOMAIN t.cols :
            t.cols[i] = c /\ \A j \in 1..(i - 1) : t.cols[j] # c
    ELSE 0

HasCol(t, c) == ColIndex(t, c) # 0

\* t[c]: the cells of column c, by row
Column(t, c) == [i \in DOMAIN t.rows |-> t.rows[i][ColIndex(t, c)]]

\* t[c] = vals: replaces column c, or appends it as the last column
SetColumn(t, c, vals) ==
    IF HasCol(t, c)
    THEN [cols |-> t.cols,
          rows |-> [i \in DOMAIN t.rows |->
                       [t.rows[i] EXCEPT ![ColIndex(t, c)] = vals[i]]]]
    ELSE [cols |-> Append(t.cols, c),
          rows |-> [i \in DOMAIN t.rows |-> Append(t.rows[i], vals[i])]]

\* DataFrame.rename(columns = {sc: "ID", fc: "fw_reads", rc: "rv_reads"}): a new
\* table; of equal keys of the dict the last one stands
RenameCol(name, sc, fc, rc) ==
    IF name = rc THEN DEF_RV_READS
    ELSE IF name = fc THEN DEF_FW_READS
    ELSE IF name = sc THEN DEF_SAMPLE_ID
    ELSE name

Renamed(t, sc, fc, rc) ==
    [cols |-> [i \in DOMAIN t.cols |-> RenameCol(t.cols[i], sc, fc, rc)],
     rows |-> t.rows]

\* the positions a boolean mask keeps, in order
RECURSIVE Filter(_, _)
Filter(rows, keep) ==
    IF Len(rows) = 0 THEN <<>>
    ELSE (IF keep[1] THEN <<rows[1]>> ELSE <<>>) \o Filter(Tail(rows), Tail(keep))

\* Series.isin(values)
IsIn(vals, among) ==
    [i \in DOMAIN vals |-> \E j \in DOMAIN among : among[j] = vals[i]]

\* DataFrame.append(other, ignore_index=True) (pandas 1.x, sort=False): the
\* columns of t, then those only other has; a cell a row has no column for is
\* NaN, which to_csv writes as the empty field
AppendRows(t, other) ==
    LET extra == SelectSeq(other.cols, LAMBDA c : ~HasCol(t, c))
        cols == t.cols \o extra
        pad == [i \in DOMAIN extra |-> <<>>]
        cell(r, c) == IF HasCol(other, c) THEN r[ColIndex(other, c)] ELSE <<>>
    IN [cols |-> cols,
        rows |-> [i \in DOMAIN t.rows |-> t.rows[i] \o pad]
                 \o [i \in DOMAIN other.rows |->
                        [k \in DOMAIN cols |-> cell(other.rows[i], cols[k])]]]

\* ------------------------------------------------------- _fetch_filepath

\* simplify_samplenames, on one declared reference
simplify_samplenames(x) ==
    Strip(SplitLast(SplitHead(Lower(x), <<DOT>>), <<SLASH>>))

\* simplify_samplename, on one file name of the walk
simplify_samplename(f) == Strip(SplitHead(Lower(f), <<DOT>>))

\* os.walk(rootdir) over the directory that holds the samplesheet, whose
\* content is dir: a list of [sub, name], sub the file's directory relative
\* to it (empty for the directory itself), in the order the file system
\* lists them.  os.walk("") finds no directory to scan and yields nothing.
OsWalk(rootdir, dir) ==
    IF rootdir = <<>> THEN <<>>
    ELSE [i \in DOMAIN dir |->
            [root |-> IF dir[i].sub = <<>> THEN rootdir
                      ELSE PathJoin(rootdir, dir[i].sub),
             file |-> dir[i].name]]

\* find_matching_file: the first file of the walk whose simplified name is
\* filename; found is FALSE where the code raises FileNotFoundError
find_matching_file(filename, walk) ==
    LET hits == {i \in DOMAIN walk : simplify_samplename(walk[i].file) = filename}
    IN IF hits = {} THEN [found |-> FALSE, path |-> <<>>]
       ELSE LET i == CHOOSE h \in hits : \A g \in hits : h <= g
            IN [found |-> TRUE, path |-> PathJoin(walk[i].root, walk[i].file)]

\* _fetch_filepath on one column: the paths, or the name the first failing
\* search was called with
fetch_filepath(read_files, fname, dir) ==
    LET smpsh_dir == Dirname(fname)
        reads_smp == [i \in DOMAIN read_files |-> simplify_samplenames(read_files[i])]
        res == [i \in DOMAIN reads_smp |->
                   find_matching_file(reads_smp[i], OsWalk(smpsh_dir, dir))]
        bad == {i \in DOMAIN res : ~res[i].found}
    IN IF bad = {}
       THEN [ok |-> TRUE, paths |-> [i \in DOMAIN res |-> res[i].path], named |-> <<>>]
       ELSE [ok |-> FALSE, paths |-> <<>>,
             named |-> reads_smp[CHOOSE b \in bad : \A c \in bad : b <= c]]

\* utils.generate_uqid: a deterministic identifier of its argument
generate_uqid(s) == <<"#">> \o s

\* --------------------------------------------------------------- inputs

\* longest samplesheet the invocations read, in rows
MaxRows == 2

\* rows of [identifier, forward reference, reverse reference]
RowPool == { <<<<"S","1">>, <<"A",".","f","q">>, <<"x","/","B",".","f","q">>>>,
             <<<<"S","2">>, <<" ","b"," ">>, <<"A",".","f","q">>>> }

RowSeqs == UNION {[1..n -> RowPool] : n \in 0..MaxRows}

\* the samplesheets with header h: each row cut to the header's width
Tables(h) ==
    {[cols |-> h, rows |-> [i \in DOMAIN r |-> SubSeq(r[i], 1, Len(h))]] : r \in RowSeqs}

\* content of the directory that holds the samplesheet, in listing order
DirFull == <<[sub |-> <<>>, name |-> <<"A",".","f","q",".","g","z">>],
             [sub |-> <<>>, name |-> <<"a",".","f","a","s","t","q">>],
             [sub |-> <<"x">>, name |-> <<"B",".","f","q">>]>>
DirOther == <<[sub |-> <<>>, name |-> <<"a",".","f","a","s","t","q">>],
              [sub |-> <<>>, name |-> <<"A",".","f","q",".","g","z">>],
              [sub |-> <<"x">>, name |-> <<"B",".","f","q">>]>>
DirPart == <<[sub |-> <<>>, name |-> <<"A",".","f","q",".","g","z">>]>>
Dirs == {DirFull, DirOther, DirPart}

\* what the working directory holds as samplesheet.tsv when a process starts:
\* nothing, or the sheet an earlier process wrote there
OldSheet ==
    WriteCsv([cols |-> <<DEF_SAMPLE_ID, DEF_FW_READS, DEF_RV_READS, S_run_id, S_uqid, S_assembly>>,
              rows |-> <<>>], TAB)
CwdFiles == {Absent, OldSheet}

S_smp == <<"s","m","p">>
S_R1 == <<"R","1">>
S_R2 == <<"R","2">>
RunName == <<"r","7">>
DbDir == <<"/","d","b">>
SheetCsv == <<"/","w","/","d","a","t","a","/","r","/","s",".","c","s","v">>
SheetTsv == <<"/","w","/","d","a","t","a","x","/","s",".","t","s","v">>
SheetBare == <<"s",".","c","s","v">>

\* Command lines without --sample_db_dir, each with the header of the sheet it
\* names, the directory listings that sheet may lie in, and what the working
\* directory may hold as samplesheet.tsv.
FirstRuns ==
    { [samplesheet |-> SheetCsv, sample_col |-> DEF_SAMPLE_ID, fw_col |-> DEF_FW_READS,
       rev_col |-> DEF_RV_READS, header |-> <<DEF_SAMPLE_ID, DEF_FW_READS, DEF_RV_READS>>,
       dirs |-> Dirs, cwd |-> CwdFiles],
      [samplesheet |-> SheetTsv, sample_col |-> S_smp, fw_col |-> S_R1,
       rev_col |-> S_R2, header |-> <<S_smp, S_R1, S_R2>>,
       dirs |-> {DirFull}, cwd |-> {Absent}],
      [samplesheet |-> SheetTsv, sample_col |-> DEF_SAMPLE_ID, fw_col |-> DEF_FW_READS,
       rev_col |-> DEF_RV_READS, header |-> <<DEF_SAMPLE_ID, DEF_FW_READS>>,
       dirs |-> {DirFull}, cwd |-> {OldSheet}],
      [samplesheet |-> SheetCsv, sample_col |-> DEF_SAMPLE_ID, fw_col |-> DEF_FW_READS,
       rev_col |-> DEF_RV_READS, header |-> <<DEF_SAMPLE_ID, DEF_FW_READS>>,
       dirs |-> {DirFull}, cwd |-> {OldSheet}],
      [samplesheet |-> SheetBare, sample_col |-> DEF_SAMPLE_ID, fw_col |-> DEF_FW_READS,
       rev_col |-> DEF_RV_READS, header |-> <<DEF_SAMPLE_ID, DEF_FW_READS, DEF_RV_READS>>,
       dirs |-> {DirFull}, cwd |-> {Absent}] }

\* Command lines with --sample_db_dir, each with the header of the
\* samplesheet.tsv beside the sheet it names.
FinalRuns ==
    { [samplesheet |-> SheetCsv, sample_col |-> DEF_SAMPLE_ID, fw_col |-> DEF_FW_READS,
       rev_col |-> DEF_RV_READS, header |-> <<DEF_SAMPLE_ID, DEF_FW_READS, DEF_RV_READS>>,
       cwd |-> CwdFiles],
      [samplesheet |-> SheetCsv, sample_col |-> DEF_SAMPLE_ID, fw_col |-> DEF_FW_READS,
       rev_col |-> DEF_SAMPLE_ID, header |-> <<DEF_SAMPLE_ID>>,
       cwd |-> {OldSheet}],
      [samplesheet |-> SheetCsv, sample_col |-> DEF_SAMPLE_ID, fw_col |-> DEF_FW_READS,
       rev_col |-> DEF_RV_READS, header |-> <<DEF_SAMPLE_ID, DEF_FW_READS>>,
       cwd |-> {OldSheet}],
      [samplesheet |-> SheetCsv, sample_col |-> S_smp, fw_col |-> S_R1,
       rev_col |-> S_R2, header |-> <<S_smp, S_R1, S_R2>>,
       cwd |-> {Absent}] }

\* ---------------------------------------------------------------- state

VARIABLES
    pc,                    \* position in __main__
    sample_db_dir,         \* args.sample_db_dir: [given, path]
    sample_col,            \* self.sample_col
    fw_col,                \* self.fw_col
    rev_col,               \* self.rev_col
    run_id,                \* self.run_id
    corrected_sheet,       \* self.corrected_sheet
    filename,              \* self.filename
    sample_db_samplesheet, \* self.sample_db_samplesheet
    content,               \* self.content
    sheetFile,             \* the file at self.filename
    sheetDir,              \* content of the directory that holds the sheet
    perRunFile,            \* samplesheet.tsv in the process's working directory
    dbFile,                \* the file at self.sample_db_samplesheet
    log,                   \* the steps this invocation has entered
    dbio,                  \* reads and writes of the database file, this invocation
    err,                   \* the exception raised, type "" when none
    errAt,                 \* Len(log) when the exception was raised, 0 when none
    perRun0,               \* perRunFile when the invocation started
    db0                    \* dbFile when the invocation started

vars == <<pc, sample_db_dir, sample_col, fw_col, rev_col, run_id, corrected_sheet,
          filename, sample_db_samplesheet, content, sheetFile, sheetDir, perRunFile,
          dbFile, log, dbio, err, errAt, perRun0, db0>>

selfVars == <<sample_db_dir, sample_col, fw_col, rev_col, run_id, corrected_sheet,
              filename, sample_db_samplesheet>>
inputVars == <<sheetFile, sheetDir>>
startVars == <<perRun0, db0>>

NoError == [type |-> "", arg |-> <<>>]

Init ==
    /\ pc = "start"
    /\ sample_db_dir = [given |-> FALSE, path |-> <<>>]
    /\ sample_col = <<>>
    /\ fw_col = <<>>
    /\ rev_col = <<>>
    /\ run_id = <<>>
    /\ corrected_sheet = FALSE
    /\ filename = <<>>
    /\ sample_db_samplesheet = <<>>
    /\ content = EmptyTable
    /\ sheetFile = Absent
    /\ sheetDir = <<>>
    /\ perRunFile = Absent
    /\ dbFile = Absent
    /\ log = <<>>
    /\ dbio = <<>>
    /\ err = NoError
    /\ errAt = 0
    /\ perRun0 = Absent
    /\ db0 = Absent

\* --------------------------------------------------------------- __init__

\* self.filename
InitFilename(samplesheet, given) ==
    IF given THEN PathJoin(Dirname(samplesheet), CORR_SAMPLESHEET) ELSE samplesheet

\* A process starts: argparse, then SampleSheet(...).
Construct(a, given, file, dir, cwdFile) ==
    /\ pc = "start"
    /\ pc' = "read"
    /\ sample_db_dir' = [given |-> given, path |-> IF given THEN DbDir ELSE <<>>]
    /\ sample_col' = a.sample_col
    /\ fw_col' = a.fw_col
    /\ rev_col' = a.rev_col
    /\ run_id' = RunName
    /\ corrected_sheet' = given
    /\ filename' = InitFilename(a.samplesheet, given)
    /\ sample_db_samplesheet' = IF given THEN PathJoin(DbDir, S_sampledb) ELSE <<>>
    /\ content' = EmptyTable
    /\ sheetFile' = file
    /\ sheetDir' = dir
    /\ log' = <<>>
    /\ dbio' = <<>>
    /\ err' = NoError
    /\ errAt' = 0
    /\ perRunFile' = cwdFile
    /\ perRun0' = cwdFile
    /\ db0' = dbFile
    /\ UNCHANGED dbFile

\* python read_samplesheet.py -s ... -n r7: the sheet is a file in the format
\* its extension names
StartFirstRun ==
    \E a \in FirstRuns : \E t \in Tables(a.header) : \E dir \in a.dirs :
        \E cwdFile \in a.cwd :
            Construct(a, FALSE,
                      WriteCsv(t, IF EndsWith(a.samplesheet, S_tsv) THEN TAB ELSE COMMA),
                      dir, cwdFile)

\* python read_samplesheet.py -s ... -d /db: the sheet read is the
\* samplesheet.tsv beside the one named, a tab-separated file
StartFinalRun ==
    \E a \in FinalRuns : \E t \in Tables(a.header) : \E cwdFile \in a.cwd :
        Construct(a, TRUE, WriteCsv(t, TAB), <<>>, cwdFile)

\* ... where no samplesheet.tsv lies beside the sheet named
StartFinalRunNoSheet ==
    \E a \in FinalRuns : \E cwdFile \in a.cwd :
        Construct(a, TRUE, Absent, <<>>, cwdFile)

\* ------------------------------------------------------- read_samplesheet

\* read_samplesheet without its test of the extension: every sheet is read as
\* tab-separated and checked for the reverse-read column
IsTsv_ExtensionIgnored(fname) == TRUE

\* the branch read_samplesheet takes: read_table and the assert, or read_csv
IsTsv(fname) == EndsWith(fname, S_tsv)

\* read_samplesheet: the exception raised ("" for none) and the table read
read_samplesheet(fname, file, rc) ==
    IF ~file.exists
    THEN [raised |-> "FileNotFoundError", arg |-> fname, table |-> EmptyTable]
    ELSE IF IsTsv(fname)
    THEN LET smpsh == ReadCsv(file, TAB)
         IN IF HasCol(smpsh, rc)
            THEN [raised |-> "", arg |-> <<>>, table |-> smpsh]
            ELSE [raised |-> "AssertionError", arg |-> rc, table |-> EmptyTable]
    ELSE [raised |-> "", arg |-> <<>>, table |-> ReadCsv(file, COMMA)]

\* __main__ with the two branches on corrected_sheet swapped
MainBranch_Swapped(corrected) == IF corrected THEN "update" ELSE "sampledb"

\* __main__ after read_samplesheet: the branch on corrected_sheet
MainBranch(corrected) == IF ~corrected THEN "update" ELSE "sampledb"

ReadSamplesheet ==
    /\ pc = "read"
    /\ LET r == read_samplesheet(filename, sheetFile, rev_col)
       IN /\ log' = Append(log, "load")
          /\ IF r.raised = ""
             THEN /\ content' = r.table
                  /\ pc' = MainBranch(corrected_sheet)
                  /\ UNCHANGED <<err, errAt>>
             ELSE /\ pc' = "failed"
                  /\ err' = [type |-> r.raised, arg |-> r.arg]
                  /\ errAt' = Len(log) + 1
                  /\ UNCHANGED content
    /\ UNCHANGED <<selfVars, inputVars, startVars, perRunFile, dbFile, dbio>>

\* ------------------------------------------------------ update_samplesheet

\* the assembly directory without the cut at "/data"
AssemblyDir_NotCut(fname) == Dirname(fname)

\* os.path.dirname(self.filename).split("/data")[0]
AssemblyDir(fname) == SplitHead(Dirname(fname), S_data)

\* contig_path
ContigPath(sc) == S_results \o sc \o S_contigs

\* self.content had the rename been assigned back (or made in place)
ContentAfterRename_Kept(t, sc, fc, rc) == Renamed(t, sc, fc, rc)

\* self.content once self.content.rename(columns=...) has returned: rename
\* builds a new table, which the statement drops
ContentAfterRename(t, sc, fc, rc) == t

\* the columns added once both read columns are resolved
Annotated(t, fname, sc, fc, rc, rid) ==
    LET t1 == SetColumn(t, S_run_id, [i \in DOMAIN t.rows |-> rid])
        t2 == SetColumn(t1, S_uqid,
                  [i \in DOMAIN t1.rows |->
                      generate_uqid(Concat(<<Column(t1, S_run_id)[i],
                                             Column(t1, fc)[i],
                                             Column(t1, rc)[i]>>))])
        t3 == SetColumn(t2, S_assembly,
                  [i \in DOMAIN t2.rows |-> AssemblyDir(fname) \o ContigPath(sc)])
    IN ContentAfterRename(t3, sc, fc, rc)

\* update_samplesheet: the exception raised ("" for none), the table it
\* leaves in self.content and the steps it entered
update_samplesheet(t, fname, dir, sc, fc, rc, rid) ==
    IF ~HasCol(t, fc) \/ ~HasCol(t, rc)
    THEN [raised |-> "KeyError", arg |-> IF ~HasCol(t, fc) THEN fc ELSE rc,
          table |-> t, steps |-> <<"resolve">>]
    ELSE LET fw == fetch_filepath(Column(t, fc), fname, dir)
             rv == fetch_filepath(Column(t, rc), fname, dir)
         IN IF ~fw.ok
            THEN [raised |-> "FileNotFoundError", arg |-> fw.named,
                  table |-> t, steps |-> <<"resolve">>]
            ELSE IF ~rv.ok
            THEN [raised |-> "FileNotFoundError", arg |-> rv.named,
                  table |-> t, steps |-> <<"resolve">>]
            ELSE [raised |-> "", arg |-> <<>>,
                  table |-> Annotated(SetColumn(SetColumn(t, fc, fw.paths), rc, rv.paths),
                                      fname, sc, fc, rc, rid),
                  steps |-> <<"resolve", "annotate">>]

\* __main__ with the exception of update_samplesheet caught and passed over
NextAfterUpdate_Swallowed(raised) == "write"

\* __main__ after update_samplesheet: an exception ends the process
NextAfterUpdate(raised) == IF raised THEN "failed" ELSE "write"

UpdateSamplesheet ==
    /\ pc = "update"
    /\ LET r == update_samplesheet(content, filename, sheetDir, sample_col, fw_col,
                                   rev_col, run_id)
       IN /\ log' = log \o r.steps
          /\ content' = r.table
          /\ pc' = NextAfterUpdate(r.raised # "")
          /\ IF r.raised = ""
             THEN UNCHANGED <<err, errAt>>
             ELSE /\ err' = [type |-> r.raised, arg |-> r.arg]
                  /\ errAt' = Len(log) + Len(r.steps)
    /\ UNCHANGED <<selfVars, inputVars, startVars, perRunFile, dbFile, dbio>>

\* ------------------------------------------------------- write_samplesheet

WriteSamplesheet ==
    /\ pc = "write"
    /\ log' = Append(log, "write")
    /\ perRunFile' = WriteCsv(content, TAB)
    /\ pc' = "done"
    /\ UNCHANGED <<selfVars, inputVars, startVars, content, dbFile, dbio, err, errAt>>

\* --------------------------------------------------------- update_sampledb

\* update_sampledb with the first write left at to_csv's default separator
DbWriteSep_CommaWhenNew(existed) == IF existed THEN TAB ELSE COMMA

\* the separator of the to_csv call that writes the database: that of the
\* merge (existed) or that of the first write
DbWriteSep(existed) == TAB

\* the separator pd.read_csv reads the database with
DbReadSep == COMMA

\* update_sampledb: the exception raised ("" for none), the database file it
\* leaves, and its reads and writes of that file
update_sampledb(t, db) ==
    IF db.exists
    THEN LET db_content == ReadCsv(db, DbReadSep)
             rd == [op |-> "read", sep |-> DbReadSep, existed |-> TRUE]
         IN IF ~HasCol(t, DEF_SAMPLE_ID) \/ ~HasCol(db_content, DEF_SAMPLE_ID)
            THEN [raised |-> "KeyError", arg |-> DEF_SAMPLE_ID, file |-> db, io |-> <<rd>>]
            ELSE LET new == [cols |-> t.cols,
                             rows |-> Filter(t.rows,
                                 [i \in DOMAIN t.rows |->
                                     ~IsIn(Column(t, DEF_SAMPLE_ID), Column(db_content, DEF_SAMPLE_ID))[i]])]
                 IN [raised |-> "", arg |-> <<>>,
                     file |-> WriteCsv(AppendRows(db_content, new), DbWriteSep(TRUE)),
                     io |-> <<rd, [op |-> "write", sep |-> DbWriteSep(TRUE),
                                   existed |-> TRUE]>>]
    ELSE [raised |-> "", arg |-> <<>>,
          file |-> WriteCsv(t, DbWriteSep(FALSE)),
          io |-> <<[op |-> "write", sep |-> DbWriteSep(FALSE), existed |-> FALSE]>>]

UpdateSampledb ==
    /\ pc = "sampledb"
    /\ LET r == update_sampledb(content, dbFile)
       IN /\ log' = Append(log, "merge")
          /\ dbio' = dbio \o r.io
          /\ dbFile' = r.file
          /\ IF r.raised = ""
             THEN /\ pc' = "done"
                  /\ UNCHANGED <<err, errAt>>
             ELSE /\ pc' = "failed"
                  /\ err' = [type |-> r.raised, arg |-> r.arg]
                  /\ errAt' = Len(log) + 1
    /\ UNCHANGED <<selfVars, inputVars, startVars, content, perRunFile>>

\* ------------------------------------------------------------------ exit

\* The process ends, normally or by the exception.  The database stays for
\* the next process, which runs in a working directory of its own; the object
\* and the record of this run do not stay.
Exit ==
    /\ pc \in {"done", "failed"}
    /\ pc' = "start"
    /\ sample_db_dir' = [given |-> FALSE, path |-> <<>>]
    /\ sample_col' = <<>>
    /\ fw_col' = <<>>
    /\ rev_col' = <<>>
    /\ run_id' = <<>>
    /\ corrected_sheet' = FALSE
    /\ filename' = <<>>
    /\ sample_db_samplesheet' = <<>>
    /\ content' = EmptyTable
    /\ sheetFile' = Absent
    /\ sheetDir' = <<>>
    /\ log' = <<>>
    /\ dbio' = <<>>
    /\ err' = NoError
    /\ errAt' = 0
    /\ perRunFile' = Absent
    /\ perRun0' = Absent
    /\ db0' = dbFile
    /\ UNCHANGED dbFile

\* ------------------------------------------------------------------ spec

Next ==
    \/ StartFirstRun
    \/ StartFinalRun
    \/ StartFinalRunNoSheet
    \/ ReadSamplesheet
    \/ UpdateSamplesheet
    \/ WriteSamplesheet
    \/ UpdateSampledb
    \/ Exit

Spec == Init /\ [][Next]_vars

\* ---------------------------------------------------------------- claims

IsPrefix(a, b) == Len(a) <= Len(b) /\ a = SubSeq(b, 1, Len(a))

NoDuplicates(vals) ==
    \A i, j \in DOMAIN vals : i # j => vals[i] # vals[j]

\* the separator the extension of self.filename stands for
SheetSep == IF EndsWith(filename, S_tsv) THEN TAB ELSE COMMA

\* the sheet as its file holds it
SheetTable == ReadCsv(sheetFile, SheetSep)

\* update_samplesheet has resolved both read columns and added its columns
AnnotateDone == Len(log) >= 3 /\ log[3] = "annotate"

\* p is d cut before the first "/data" in it, all of d when there is none
TruncatedAtData(d, p) ==
    \E k \in 0..Len(d) :
        /\ p = SubSeq(d, 1, k)
        /\ \A j \in 1..k : ~OccursAt(d, S_data, j)
        /\ k = Len(d) \/ OccursAt(d, S_data, k + 1)

\* the files of the sheet's directory whose simplified name is that of ref
Matching(ref) ==
    {k \in DOMAIN sheetDir :
        simplify_samplename(sheetDir[k].name) = simplify_samplenames(ref)}

\* the path of file k of the sheet's directory, from the directory of self.filename
PathOf(k) ==
    PathJoin(IF sheetDir[k].sub = <<>> THEN Dirname(filename)
             ELSE PathJoin(Dirname(filename), sheetDir[k].sub),
             sheetDir[k].name)

\* C1: starting from an absent database file, after any sequence of
\* update_sampledb invocations the database never holds two rows with the
\* same ID.
C1_NoDuplicateIDs ==
    dbFile.exists =>
        LET db == ReadCsv(dbFile, TAB)
        IN HasCol(db, DEF_SAMPLE_ID) => NoDuplicates(Column(db, DEF_SAMPLE_ID))

\* C2: when the database file exists, update_sampledb succeeds and writes back
\* every row the database had, unchanged and in order, followed by exactly the
\* incoming rows whose ID is not among them.  Stated for an incoming table that
\* has the columns the database was written with, ID among them.
C2_MergeKeepsOldAppendsNew ==
    ( /\ sample_db_dir.given
      /\ Len(log) = 2
      /\ log[2] = "merge"
      /\ db0.exists
      /\ HasCol(content, DEF_SAMPLE_ID)
      /\ ReadCsv(db0, TAB).cols = content.cols )
    => LET old == ReadCsv(db0, TAB)
           fresh == [i \in DOMAIN content.rows |->
                        ~IsIn(Column(content, DEF_SAMPLE_ID), Column(old, DEF_SAMPLE_ID))[i]]
       IN /\ pc = "done"
          /\ ReadCsv(dbFile, TAB) =
                [cols |-> old.cols, rows |-> old.rows \o Filter(content.rows, fresh)]

\* C3: for every declared reference of the forward and reverse columns, if a
\* file under the directory that holds the samplesheet has the reference's
\* simplified name, _fetch_filepath does not fail on that reference, and the
\* path it returns for it is the path of such a file.
C3_ResolveFindsMatchingFile ==
    ( /\ ~sample_db_dir.given
      /\ Len(log) >= 2
      /\ HasCol(SheetTable, fw_col)
      /\ HasCol(SheetTable, rev_col) )
    => \A c \in {fw_col, rev_col} : \A i \in DOMAIN SheetTable.rows :
          LET ref == Column(SheetTable, c)[i]
          IN Matching(ref) # {} =>
                /\ ~(err.type = "FileNotFoundError"
                     /\ err.arg = simplify_samplenames(ref))
                /\ err.type = "" =>
                      \E k \in Matching(ref) : Column(content, c)[i] = PathOf(k)

\* the declared references update_samplesheet searches for, in the order it
\* searches: the forward column, then the reverse column
DeclaredRefs == Column(SheetTable, fw_col) \o Column(SheetTable, rev_col)

\* C4: if a declared reference has no matching file under the search directory,
\* resolving fails with a file-not-found error that names the unmatched
\* reference as the samplesheet declares it.
C4_ErrorNamesDeclaredReference ==
    ( /\ ~sample_db_dir.given
      /\ Len(log) >= 2
      /\ HasCol(SheetTable, fw_col)
      /\ HasCol(SheetTable, rev_col)
      /\ \E i \in DOMAIN DeclaredRefs : Matching(DeclaredRefs[i]) = {} )
    => LET first == CHOOSE i \in DOMAIN DeclaredRefs :
                       /\ Matching(DeclaredRefs[i]) = {}
                       /\ \A j \in 1..(i - 1) : Matching(DeclaredRefs[j]) # {}
       IN /\ err.type = "FileNotFoundError"
          /\ err.arg = DeclaredRefs[first]

\* C5: read_samplesheet fails with the missing-column error exactly when the
\* path ends in .tsv and the file lacks the reverse-read column; for any other
\* extension it succeeds even without that column; the table it holds is the
\* file's content.
C5_LoadFailsOnlyForTsvWithoutRevCol ==
    (Len(log) >= 1 /\ sheetFile.exists) =>
        LET tsv == EndsWith(filename, S_tsv)
        IN /\ (err.type = "AssertionError" /\ errAt = 1)
                <=> (tsv /\ ~HasCol(ReadCsv(sheetFile, TAB), rev_col))
           /\ ~tsv => errAt # 1
           /\ (errAt # 1 /\ Len(log) = 1)
                => content = ReadCsv(sheetFile, IF tsv THEN TAB ELSE COMMA)

C5_Witness ==
    /\ err.type = "AssertionError"
    /\ errAt = 1
    /\ Len(SheetTable.rows) >= 1

\* C6: after update_samplesheet with run id R every row's run_id is R and every
\* row's assembly is the directory of the samplesheet cut at the first "/data",
\* followed by /results/<identifier column name>/assembly/contigs.fa: one value
\* for all rows, whatever the row's identifier.
C6_RunIdAndAssembly ==
    AnnotateDone =>
        \A i \in DOMAIN content.rows :
            /\ Column(content, S_run_id)[i] = run_id
            /\ \E p \in {SubSeq(Dirname(filename), 1, k) : k \in 0..Len(Dirname(filename))} :
                  /\ TruncatedAtData(Dirname(filename), p)
                  /\ Column(content, S_assembly)[i] = p \o S_results \o sample_col \o S_contigs

C6_Witness ==
    /\ AnnotateDone
    /\ Len(content.rows) = 2
    /\ Column(content, sample_col)[1] # Column(content, sample_col)[2]
    /\ FirstOcc(Dirname(filename), S_data) > 1

\* C7: the run mode is fixed at construction by whether a database directory
\* was supplied and never changes: without one the steps run in the order load,
\* resolve, annotate, write-per-run and the database file is neither read nor
\* written; with one only load and then merge-into-database run, and the
\* per-run file is not written.
C7_ModeFixesTheSteps ==
    pc # "start" =>
        /\ corrected_sheet = sample_db_dir.given
        /\ IF ~sample_db_dir.given
           THEN /\ IsPrefix(log, <<"load", "resolve", "annotate", "write">>)
                /\ pc = "done" => Len(log) = 4
                /\ dbio = <<>>
                /\ dbFile = db0
           ELSE /\ IsPrefix(log, <<"load", "merge">>)
                /\ pc = "done" => Len(log) = 2
                /\ perRunFile = perRun0

C7_Witness ==
    /\ pc = "done"
    /\ ~sample_db_dir.given
    /\ dbFile.exists
    /\ Len(content.rows) >= 1

\* C8: every error is fatal and leaves no partial write: once load, resolve,
\* annotate or the database read has failed, no later step of the invocation
\* runs, and the per-run file and the database file are as they were when the
\* invocation started.
C8_ErrorsAreFatalAndWriteNothing ==
    err.type # "" =>
        /\ pc = "failed"
        /\ Len(log) = errAt
        /\ perRunFile = perRun0
        /\ dbFile = db0

C8_Witness ==
    /\ pc = "failed"
    /\ errAt = 2
    /\ perRun0.exists
    /\ db0.exists

\* C9 as stated: the database file is written comma-separated when
\* update_sampledb creates it.
C9_FreshDatabaseIsCommaSeparated ==
    (pc = "done" /\ sample_db_dir.given /\ ~db0.exists)
        => dbFile = WriteCsv(content, COMMA)

\* C9 as amended: the database file is written tab-separated both when
\* update_sampledb creates it and when it merges into an existing one, and is
\* always read comma-separated.
C9_DatabaseWrittenWithTabsReadWithCommas ==
    (pc = "done" /\ sample_db_dir.given) =>
        /\ \A i \in DOMAIN dbio :
              /\ dbio[i].op = "write" => dbio[i].sep = TAB
              /\ dbio[i].op = "read" => dbio[i].sep = COMMA
        /\ \E i \in DOMAIN dbio : dbio[i].op = "write"
        /\ db0.exists => \E i \in DOMAIN dbio : dbio[i].op = "read"
        /\ ~db0.exists => dbFile = WriteCsv(content, TAB)
        /\ db0.exists =>
              Len(Split(dbFile.lines[1], TAB)) =
                 Cardinality({ReadCsv(db0, COMMA).cols[k] : k \in DOMAIN ReadCsv(db0, COMMA).cols}
                             \cup {content.cols[k] : k \in DOMAIN content.cols})

C9_Witness ==
    /\ pc = "done"
    /\ sample_db_dir.given
    /\ ~db0.exists
    /\ Len(content.cols) >= 2
    /\ Len(content.rows) >= 1

\* C10: the rename of update_samplesheet is computed but not kept: afterwards
\* the table, and so the per-run file write_samplesheet writes, still has the
\* configured identifier, forward and reverse column names, followed by the
\* three columns added.
C10_RenameIsNotKept ==
    AnnotateDone =>
        /\ content.cols = SheetTable.cols \o <<S_run_id, S_uqid, S_assembly>>
        /\ pc = "done" => Split(perRunFile.lines[1], TAB) = content.cols

C10_Witness ==
    /\ pc = "done"
    /\ AnnotateDone
    /\ sample_col # DEF_SAMPLE_ID
    /\ HasCol(content, sample_col)
    /\ ~HasCol(content, DEF_SAMPLE_ID)
    /\ Len(content.rows) >= 1

====
